---- MODULE Spec2Model ----
(***************************************************************************)
(* A model of http_service/models.py: the model artifact cache             *)
(* (retrieve_model), the model loader (load_model) and the classification  *)
(* job (classify_bug), run by independent worker processes that share the  *)
(* models directory, the remote artifact index and the Redis result store. *)
(***************************************************************************)
EXTENDS Integers, Sequences, FiniteSets, TLC

(* ------------------------------ bounds --------------------------------- *)

\* number of blocks an artifact is transferred and decompressed in
NChunks == 2
\* largest number of records bugzilla._download returns for one identifier
MaxBugs == 2

(* ------------------------------ inputs --------------------------------- *)

Workers == {"w1", "w2"}

\* models.py:24-28
MODELS == {"defectenhancementtask", "component", "regression"}

\* model names the callers pass: a registered one and an unregistered one
Names == {"component", "nosuch"}

\* remote artifact versions; the ETag of a version is its name.  The xz
\* stream of "vbad" is damaged in its last block.
Versions == {"v1", "v2", "vbad"}

BugIds == {67}

\* models.py:76, the default of expiration
DefaultExpiration == 500

Expirations == {DefaultExpiration, 60}

\* the records the record source can return, and what the predictor
\* (model.classify(bugs, True)) computes for each: one row of class
\* probabilities (in tenths)
Records == {"r1", "r2"}

PredictProba(rec) == IF rec = "r1" THEN <<1, 7, 2>> ELSE <<6, 3, 1>>

\* model.clf._le: the label encoder's classes
Classes == <<"classA", "classB", "classC">>

(* --------------------------- file contents ----------------------------- *)

\* os.path.join(MODELS_DIR, f"{name}model") (models.py:35, 44-45)
FilePath(name) == <<"models", name, "model">>

Absent == [exists |-> FALSE, data |-> <<>>]

Empty == [exists |-> TRUE, data |-> <<>>]

\* a block never written that lies before a written one
Hole == [kind |-> "hole", v |-> "", i |-> 0]

XzBlock(v, k) == [kind |-> "xz", v |-> v, i |-> k]

RawBlock(v, k) == [kind |-> "raw", v |-> v, i |-> k]

\* the compressed artifact the remote serves for version v
Compressed(v) == [k \in 1..NChunks |-> XzBlock(v, k)]

\* what lzma yields for the whole stream of version v
Decompressed(v) == [k \in 1..NChunks |-> RawBlock(v, k)]

\* a write of block c at offset pos through a descriptor of its own
WriteAt(data, pos, c) ==
    [k \in 1..(IF Len(data) > pos + 1 THEN Len(data) ELSE pos + 1) |->
        IF k = pos + 1 THEN c
        ELSE IF k <= Len(data) THEN data[k] ELSE Hole]

\* lzma can decode the block read at offset pos of a stream that began
\* with version v
Decodable(c, v, pos) ==
    /\ c.kind = "xz"
    /\ c.v = v
    /\ c.i = pos + 1
    /\ ~(c.v = "vbad" /\ c.i = NChunks)

Count(s, e) == Cardinality({k \in 1..Len(s) : s[k] = e})

(* ------------------------- values and JSON ----------------------------- *)

\* Python values
PyBool(b) == [t |-> "bool", v |-> <<b>>]

PyInt(i) == [t |-> "int", v |-> <<i>>]

PyFloat(x) == [t |-> "float", v |-> <<x>>]

PyStr(x) == [t |-> "str", v |-> <<x>>]

PyList(items) == [t |-> "list", v |-> items]

\* json.dumps of a value that is a scalar or a list of scalars
JsonScalar(x) ==
    IF x.t = "bool" THEN [j |-> IF x.v[1] THEN "true" ELSE "false", v |-> <<>>]
    ELSE IF x.t = "str" THEN [j |-> "string", v |-> x.v]
    ELSE [j |-> "number", v |-> x.v]

JsonValue(x) ==
    IF x.t = "list"
    THEN [j |-> "array", v |-> [k \in 1..Len(x.v) |-> JsonScalar(x.v[k])]]
    ELSE JsonScalar(x)

\* json.dumps of a dict, given as its items in order
JsonDumps(items) ==
    [k \in 1..Len(items) |-> [key |-> items[k][1],
                              value |-> JsonValue(items[k][2])]]

\* the member of an encoded object
Member(obj, key) == (CHOOSE k \in 1..Len(obj) : obj[k].key = key)

HasMember(obj, key) == \E k \in 1..Len(obj) : obj[k].key = key

Get(obj, key) == obj[Member(obj, key)].value

\* models.py:81: f"result_{model_name}_{bug_id}"
RedisKey(model_name, bug_id) == <<"result", model_name, bug_id>>

Keys == {RedisKey(n, b) : n \in Names, b \in BugIds}

\* an entry the store does not hold, and an entry without expiry
Missing == [value |-> <<>>, ttl |-> -2]

NoExpiry == -1

\* model.classify(bugs, True): one row of probabilities per record
ModelClassify(bugs) == [k \in 1..Len(bugs) |-> PredictProba(bugs[k])]

\* numpy argmax of one row: the first index of the largest entry, from 0
Argmax(row) ==
    (CHOOSE i \in 1..Len(row) :
        /\ \A j \in 1..Len(row) : row[j] <= row[i]
        /\ \A j \in 1..(i - 1) : row[j] < row[i]) - 1

\* probs.argmax(axis=-1)
ArgmaxLastAxis(probs) == [k \in 1..Len(probs) |-> Argmax(probs[k])]

\* model.clf._le.inverse_transform(indexes)
InverseTransform(indexes) == [k \in 1..Len(indexes) |-> Classes[indexes[k] + 1]]

\* ndarray.tolist() of a matrix of floats, a vector of ints, a vector of str
ToListFloat2(m) ==
    PyList([k \in 1..Len(m) |->
              PyList([c \in 1..Len(m[k]) |-> PyFloat(m[k][c])])])

ToListInt(a) == PyList([k \in 1..Len(a) |-> PyInt(a[k])])

ToListStr(a) == PyList([k \in 1..Len(a) |-> PyStr(a[k])])

\* the [0] of models.py:102-104 left out
FirstForgotten(x) == x

\* x[-1] in the place of x[0]
FirstIsLast(x) == x.v[Len(x.v)]

\* x[0] of a Python list
First(x) == x.v[1]

\* models.py:97-105: the dict data built from the fetched records
ResultData(bugs) ==
    LET probs == ModelClassify(bugs)
        indexes == ArgmaxLastAxis(probs)
        suggestions == InverseTransform(indexes)
    IN << <<"probs", First(ToListFloat2(probs))>>,
          <<"indexes", First(ToListInt(indexes))>>,
          <<"suggestions", First(ToListStr(suggestions))>> >>

\* the flag of models.py:89 set the other way
UnavailableDataTrue == << <<"available", PyBool(TRUE)>> >>

\* models.py:89: the dict published when no record came back
UnavailableData == << <<"available", PyBool(FALSE)>> >>

\* the lists of records bugzilla._download can return
RECURSIVE SeqsUpTo(_, _)
SeqsUpTo(S, n) ==
    IF n = 0 THEN {<<>>}
    ELSE SeqsUpTo(S, n - 1) \cup
         {Append(q, x) : q \in {r \in SeqsUpTo(S, n - 1) : Len(r) = n - 1},
                         x \in S}

BugLists == SeqsUpTo(Records, MaxBugs)

(* ------------------------------- state --------------------------------- *)

VARIABLES
    dirExists,  \* MODELS_DIR exists
    remote,     \* remote[n]: the version the index serves for name n
    xz,         \* xz[n]: the staging file f"{file_path}.xz"
    file,       \* file[n]: the model file file_path
    etag,       \* etag[n]: the file f"{file_path}.etag"
    store,      \* the Redis result store: key -> value and expiry
    pc,         \* pc[w]: where worker w is in its call
    fn,         \* fn[w]: the function worker w runs
    args,       \* args[w]: the arguments of the call
    loc,        \* loc[w]: the locals of the call
    ret,        \* ret[w]: the value returned, or the error raised
    log,        \* log[w]: the operations the call has performed (history)
    alone,      \* alone[w]: no other call overlapped this call (history)
    pre,        \* pre[w]: what the call found and fetched (history)
    last        \* last[n]: the ETag and the path the latest retrieve_model(n)
                \* returned with (history)

shared == <<dirExists, remote, xz, file, etag, store>>

procs == <<pc, fn, args, loc, ret>>

hist == <<log, alone, pre, last>>

vars == <<dirExists, remote, xz, file, etag, store, pc, fn, args, loc, ret,
          log, alone, pre, last>>

Rest == {"idle", "done", "failed"}

NoArgs == [name |-> "", bug_id |-> 0, expiration |-> 0]

NoLoc == [new_etag |-> "", ver |-> "", pos |-> 0, bugs |-> <<>>]

NoRet == [kind |-> "none", val |-> <<>>]

NoLast == [etag |-> "<none>", path |-> <<>>]

NoPre == [file |-> Absent, etag |-> "<absent>", prev |-> NoLast, got |-> "",
          head |-> "", entry |-> Missing]

Init ==
    /\ dirExists = FALSE
    /\ remote = [n \in Names |-> "v1"]
    /\ xz = [n \in Names |-> Absent]
    /\ file = [n \in Names |-> Absent]
    /\ etag = [n \in Names |-> "<absent>"]
    /\ store = [k \in Keys |-> Missing]
    /\ pc = [w \in Workers |-> "idle"]
    /\ fn = [w \in Workers |-> "none"]
    /\ args = [w \in Workers |-> NoArgs]
    /\ loc = [w \in Workers |-> NoLoc]
    /\ ret = [w \in Workers |-> NoRet]
    /\ log = [w \in Workers |-> <<>>]
    /\ alone = [w \in Workers |-> TRUE]
    /\ pre = [w \in Workers |-> NoPre]
    /\ last = [n \in Names |-> NoLast]

(* ----------------------------- helpers --------------------------------- *)

\* the history of a call is kept while no other call overlaps it
Note(w, e) == log' = [log EXCEPT ![w] = IF alone[w] THEN Append(@, e) ELSE @]

Goto(w, p) == pc' = [pc EXCEPT ![w] = p]

\* the call of w ends: an exception of kind e leaves it
Raise(w, e) ==
    /\ pc' = [pc EXCEPT ![w] = "failed"]
    /\ ret' = [ret EXCEPT ![w] = [kind |-> "raise", val |-> <<e>>]]
    /\ loc' = [loc EXCEPT ![w] = NoLoc]

\* the call of w ends: it returns v
Returns(w, v) ==
    /\ pc' = [pc EXCEPT ![w] = "done"]
    /\ ret' = [ret EXCEPT ![w] = [kind |-> "return", val |-> v]]
    /\ loc' = [loc EXCEPT ![w] = NoLoc]

\* worker w begins a call of f with arguments a, at p, having done the
\* operations l and found the cache files c.  The calls in progress are
\* overlapped from now on; the outcome of a finished call is kept until the
\* next call begins.
Begin(w, f, a, p, l, c) ==
    /\ pc[w] \in Rest
    /\ LET solo == \A x \in Workers \ {w} : pc[x] \in Rest
           on(u) == pc[u] \notin Rest
       IN /\ pc' = [u \in Workers |->
                      IF u = w THEN p ELSE IF on(u) THEN pc[u] ELSE "idle"]
          /\ fn' = [u \in Workers |->
                      IF u = w THEN f ELSE IF on(u) THEN fn[u] ELSE "none"]
          /\ args' = [u \in Workers |->
                      IF u = w THEN a ELSE IF on(u) THEN args[u] ELSE NoArgs]
          /\ loc' = [u \in Workers |-> IF u # w /\ on(u) THEN loc[u] ELSE NoLoc]
          /\ ret' = [u \in Workers |-> NoRet]
          /\ alone' = [u \in Workers |-> IF u = w THEN solo ELSE ~on(u)]
          /\ log' = [u \in Workers |-> IF u = w /\ solo THEN l ELSE <<>>]
          /\ pre' = [u \in Workers |-> IF u = w /\ solo THEN c ELSE NoPre]

\* a retrieve_model(n) ends, returning path with ETag t recorded
Ends(w, t, path) ==
    last' = [last EXCEPT ![args[w].name] =
               IF alone[w] THEN [etag |-> t, path |-> path] ELSE NoLast]

\* a retrieve_model(n) fails
Fails(w) == last' = [last EXCEPT ![args[w].name] = NoLast]

(* --------------------------- retrieve_model ---------------------------- *)

\* models.py:41-47: the call begins; os.makedirs(MODELS_DIR, exist_ok=True)
retrieve_model(w, name) ==
    /\ Begin(w, "retrieve_model", [NoArgs EXCEPT !.name = name], "head",
             IF dirExists THEN <<>> ELSE <<"mkdir">>,
             [NoPre EXCEPT !.file = file[name], !.etag = etag[name],
                           !.prev = last[name]])
    /\ dirExists' = TRUE
    /\ last' = [last EXCEPT ![name] =
                  IF \A x \in Workers \ {w} : pc[x] \in Rest THEN @ ELSE NoLast]
    /\ UNCHANGED <<remote, xz, file, etag, store>>

\* the comparison of models.py:59 lost: every call downloads
ChangedAlways(old, new) == TRUE

\* the comparison of models.py:59 inverted
ChangedInverted(old, new) == old = new

\* a comparison that takes a missing record for an unchanged one
ChangedUnlessNone(old, new) == old # new /\ old # "<None>"

\* models.py:59: old_etag != new_etag
Changed(old, new) == old # new

\* the answer to the HEAD query for a name: the index serves artifacts of
\* the registered models only
HeadAnswer(answer, name) ==
    IF answer = "ok" /\ name \notin MODELS THEN "status" ELSE answer

\* an ETag taken with r.headers.get("ETag"): a missing field passes
HeadPassesWithoutEtag(answer) == answer \in {"ok", "noetag"}

\* models.py:49-51: the query completes, raise_for_status passes and
\* r.headers["ETag"] is there
HeadPasses(answer) == answer = "ok"

\* models.py:49-51: requests.head, raise_for_status, r.headers["ETag"];
\* models.py:53-59, 70-73: read the recorded ETag and compare; when they
\* are equal, return file_path
CheckEtag(w) ==
    /\ pc[w] = "head"
    /\ Note(w, "head")
    /\ \E given \in {"ok", "unreachable", "status", "noetag"} :
        LET answer == HeadAnswer(given, args[w].name) IN
          /\ pre' = [pre EXCEPT ![w].head = IF alone[w] THEN answer ELSE @]
          /\ IF HeadPasses(answer)
             THEN LET new == remote[args[w].name]
                      old == IF etag[args[w].name] = "<absent>" THEN "<None>"
                             ELSE etag[args[w].name]
                  IN IF Changed(old, new)
                     THEN /\ loc' = [loc EXCEPT ![w].new_etag = new]
                          /\ Goto(w, "urlretrieve")
                          /\ UNCHANGED <<ret, last>>
                     ELSE /\ Returns(w, FilePath(args[w].name))
                          /\ Ends(w, new, FilePath(args[w].name))
             ELSE /\ Raise(w, IF answer = "unreachable" THEN "ConnectionError"
                              ELSE IF answer = "noetag" THEN "KeyError"
                              ELSE "HTTPError")
                  /\ Fails(w)
    /\ UNCHANGED <<shared, fn, args, alone>>

\* models.py:61: urlretrieve opens the url, then the staging file for writing
UrlretrieveOpen(w) ==
    /\ pc[w] = "urlretrieve"
    /\ Note(w, "urlretrieve")
    /\ loc' = [loc EXCEPT ![w].ver = remote[args[w].name], ![w].pos = 0]
    /\ pre' = [pre EXCEPT ![w].got =
                 IF alone[w] THEN remote[args[w].name] ELSE @]
    /\ xz' = [xz EXCEPT ![args[w].name] = Empty]
    /\ Goto(w, "download")
    /\ UNCHANGED <<dirExists, remote, file, etag, store, fn, args, ret,
                   alone, last>>

\* models.py:61: urlretrieve copies the response block by block
UrlretrieveBlock(w) ==
    /\ pc[w] = "download"
    /\ xz' = [xz EXCEPT ![args[w].name] =
                [exists |-> TRUE,
                 data |-> WriteAt(@.data, loc[w].pos,
                                  Compressed(loc[w].ver)[loc[w].pos + 1])]]
    /\ Note(w, "write_xz")
    /\ IF loc[w].pos + 1 < NChunks
       THEN /\ loc' = [loc EXCEPT ![w].pos = @ + 1]
            /\ UNCHANGED pc
       ELSE /\ loc' = [loc EXCEPT ![w].pos = 0, ![w].ver = ""]
            /\ Goto(w, "lzma_open")
    /\ UNCHANGED <<dirExists, remote, file, etag, store, fn, args, ret,
                   alone, pre, last>>

\* the ETag recorded before the decompression: lines 68-69 ahead of 63-66
LzmaOpenAfterEtag(w) ==
    /\ pc[w] = "lzma_open"
    /\ Note(w, "open_model")
    /\ file' = [file EXCEPT ![args[w].name] = Empty]
    /\ etag' = [etag EXCEPT ![args[w].name] = loc[w].new_etag]
    /\ Goto(w, "copy")
    /\ UNCHANGED <<dirExists, remote, xz, store, fn, args, loc, ret,
                   alone, pre, last>>

\* models.py:63-64: lzma.open of the staging file, open(file_path, "wb")
LzmaOpen(w) ==
    /\ pc[w] = "lzma_open"
    /\ Note(w, "open_model")
    /\ file' = [file EXCEPT ![args[w].name] = Empty]
    /\ Goto(w, "copy")
    /\ UNCHANGED <<dirExists, remote, xz, etag, store, fn, args, loc, ret,
                   alone, pre, last>>

\* models.py:65: shutil.copyfileobj, one block of the stream at a time.
\* loc[w].ver is the version of the stream the decoder has begun.
CopyBlock(w) ==
    /\ pc[w] = "copy"
    /\ LET n == args[w].name
           p == loc[w].pos
           src == xz[n].data
           v == IF p = 0 /\ Len(src) > 0 THEN src[1].v ELSE loc[w].ver
       IN IF p < Len(src) /\ Decodable(src[p + 1], v, p)
          THEN /\ file' = [file EXCEPT ![n] =
                             [exists |-> TRUE,
                              data |-> WriteAt(@.data, p, RawBlock(v, p + 1))]]
               /\ Note(w, "write_model")
               /\ loc' = [loc EXCEPT ![w].pos = IF p + 1 < NChunks THEN p + 1
                                                ELSE 0,
                                     ![w].ver = IF p + 1 < NChunks THEN v
                                                ELSE ""]
               /\ pc' = [pc EXCEPT ![w] = IF p + 1 < NChunks THEN "copy"
                                          ELSE "etag_open"]
               /\ UNCHANGED <<ret, last>>
          ELSE /\ Raise(w, IF p < Len(src) THEN "LZMAError" ELSE "EOFError")
               /\ Fails(w)
               /\ UNCHANGED <<file, log>>
    /\ UNCHANGED <<dirExists, remote, xz, etag, store, fn, args, alone, pre>>

\* models.py:68: open(f"{file_path}.etag", "w")
EtagOpen(w) ==
    /\ pc[w] = "etag_open"
    /\ etag' = [etag EXCEPT ![args[w].name] = ""]
    /\ Note(w, "open_etag")
    /\ Goto(w, "etag_write")
    /\ UNCHANGED <<dirExists, remote, xz, file, store, fn, args, loc, ret,
                   alone, pre, last>>

\* models.py:69, 73: f.write(new_etag), the file is closed; return file_path
EtagWrite(w) ==
    /\ pc[w] = "etag_write"
    /\ etag' = [etag EXCEPT ![args[w].name] = loc[w].new_etag]
    /\ Note(w, "write_etag")
    /\ Returns(w, FilePath(args[w].name))
    /\ Ends(w, loc[w].new_etag, FilePath(args[w].name))
    /\ UNCHANGED <<dirExists, remote, xz, file, store, fn, args, alone, pre>>

(* ----------------------------- load_model ------------------------------ *)

\* a load_model that would resolve the artifact first and load the version
\* the index serves
LoadOutcomeResolved(name) ==
    IF name \notin MODELS THEN [ok |-> FALSE, v |-> "KeyError"]
    ELSE [ok |-> TRUE, v |-> remote[name]]

\* a loader that takes whatever the model file holds for a model
LoadOutcomeLenient(name) ==
    IF name \notin MODELS THEN [ok |-> FALSE, v |-> "KeyError"]
    ELSE IF ~file[name].exists THEN [ok |-> TRUE, v |-> "v1"]
    ELSE [ok |-> TRUE, v |-> IF Len(file[name].data) = 0 THEN "v1"
                             ELSE file[name].data[1].v]

\* what MODELS[model].load(model_file_path) finds (models.py:35-37)
LoadOutcome(name) ==
    IF name \notin MODELS THEN [ok |-> FALSE, v |-> "KeyError"]
    ELSE IF ~file[name].exists THEN [ok |-> FALSE, v |-> "FileNotFoundError"]
    ELSE IF \E v \in Versions : file[name].data = Decompressed(v)
    THEN [ok |-> TRUE, v |-> file[name].data[1].v]
    ELSE [ok |-> FALSE, v |-> "UnpicklingError"]

\* models.py:34: load_model called on its own
load_model(w, name) ==
    /\ Begin(w, "load_model", [NoArgs EXCEPT !.name = name], "load", <<>>,
             [NoPre EXCEPT !.file = file[name], !.etag = etag[name]])
    /\ UNCHANGED <<shared, last>>

\* models.py:35-38: the model file is read and deserialized
LoadModel(w) ==
    /\ pc[w] = "load"
    /\ Note(w, "load")
    /\ LET r == LoadOutcome(args[w].name)
       IN IF ~r.ok THEN Raise(w, r.v)
          ELSE IF fn[w] = "load_model" THEN Returns(w, <<r.v>>)
          ELSE /\ loc' = [loc EXCEPT ![w].ver = r.v]
               /\ Goto(w, "classify")
               /\ UNCHANGED ret
    /\ UNCHANGED <<shared, fn, args, alone, pre, last>>

(* ---------------------------- classify_bug ----------------------------- *)

\* models.py:76-79: the call begins; bugzilla.set_token
classify_bug(w, model_name, bug_id, expiration) ==
    /\ Begin(w, "classify_bug",
             [name |-> model_name, bug_id |-> bug_id,
              expiration |-> expiration], "bugzilla", <<>>,
             [NoPre EXCEPT !.file = file[model_name],
                           !.etag = etag[model_name],
                           !.entry = store[RedisKey(model_name, bug_id)]])
    /\ UNCHANGED <<shared, last>>

\* models.py:86: not bugs
NoBugs(bugs) == Len(bugs) = 0

\* models.py:80-86, 96: bugzilla._download(bug_id), and the branch on bugs
Download(w) ==
    /\ pc[w] = "bugzilla"
    /\ Note(w, "fetch")
    /\ \E bugs \in BugLists :
          /\ loc' = [loc EXCEPT ![w].bugs = bugs]
          /\ Goto(w, IF NoBugs(bugs) THEN "set_unavailable" ELSE "load")
    /\ UNCHANGED <<shared, fn, args, ret, alone, pre, last>>

\* redis.set(key, value): the value is stored and the key loses its expiry
RedisSet(key, value) == [store EXCEPT ![key] = [value |-> value,
                                                ttl |-> NoExpiry]]

\* an expire that only ever lengthens an expiry the key already has
RedisExpireGT(key, seconds) ==
    [store EXCEPT ![key] = IF @ = Missing \/ @.ttl = NoExpiry \/ @.ttl >= seconds
                           THEN @ ELSE [@ EXCEPT !.ttl = seconds]]

\* redis.expire(key, seconds): a key the store holds gets the expiry
RedisExpire(key, seconds) ==
    [store EXCEPT ![key] = IF @ = Missing THEN @ ELSE [@ EXCEPT !.ttl = seconds]]

\* the redis.set of models.py:91 left out
SetUnavailableSkipped(w) ==
    /\ pc[w] = "set_unavailable"
    /\ Goto(w, "expire")
    /\ UNCHANGED <<shared, fn, args, loc, ret, hist>>

\* models.py:87-91: json.dumps({"available": False}), redis.set
SetUnavailable(w) ==
    /\ pc[w] = "set_unavailable"
    /\ store' = RedisSet(RedisKey(args[w].name, args[w].bug_id),
                         JsonDumps(UnavailableData))
    /\ Note(w, "set")
    /\ Goto(w, "expire")
    /\ UNCHANGED <<dirExists, remote, xz, file, etag, fn, args, loc, ret,
                   alone, pre, last>>

\* models.py:97-109: inference, the dict data, json.dumps, redis.set
Classify(w) ==
    /\ pc[w] = "classify"
    /\ store' = RedisSet(RedisKey(args[w].name, args[w].bug_id),
                         JsonDumps(ResultData(loc[w].bugs)))
    /\ log' = [log EXCEPT ![w] = IF alone[w] THEN @ \o <<"infer", "set">>
                                 ELSE @]
    /\ Goto(w, "expire")
    /\ UNCHANGED <<dirExists, remote, xz, file, etag, fn, args, loc, ret,
                   alone, pre, last>>

\* models.py:92-94, 110-112: redis.expire, return "OK"
Expire(w) ==
    /\ pc[w] = "expire"
    /\ store' = RedisExpire(RedisKey(args[w].name, args[w].bug_id),
                            args[w].expiration)
    /\ Note(w, "expire")
    /\ pc' = [pc EXCEPT ![w] = "done"]
    /\ ret' = [ret EXCEPT ![w] = [kind |-> "return", val |-> <<"OK">>]]
    /\ loc' = [loc EXCEPT ![w] = IF alone[w] THEN @ ELSE NoLoc]
    /\ UNCHANGED <<dirExists, remote, xz, file, etag, fn, args,
                   alone, pre, last>>

(* ---------------------------- environment ------------------------------ *)

\* the training task publishes another version of an artifact
Publish(n, v) ==
    /\ n \in MODELS
    /\ remote[n] # v
    /\ remote' = [remote EXCEPT ![n] = v]
    /\ UNCHANGED <<dirExists, xz, file, etag, store, procs, hist>>

\* the process of worker w dies between two steps of its call: the call
\* performs nothing more and the files and the store stay as they are
Kill(w) ==
    /\ pc[w] \notin Rest
    /\ pc' = [pc EXCEPT ![w] = "failed"]
    /\ ret' = [ret EXCEPT ![w] = [kind |-> "killed", val |-> <<>>]]
    /\ loc' = [loc EXCEPT ![w] = NoLoc]
    /\ IF fn[w] = "retrieve_model" THEN Fails(w) ELSE UNCHANGED last
    /\ UNCHANGED <<shared, fn, args, log, alone, pre>>

\* the expiry of the entry under key k passes: the store drops the entry
StoreExpire(k) ==
    /\ store[k] # Missing
    /\ store[k].ttl # NoExpiry
    /\ store' = [store EXCEPT ![k] = Missing]
    /\ UNCHANGED <<dirExists, remote, xz, file, etag, procs, hist>>

\* the steps of retrieve_model
Retrieve(w) ==
    \/ CheckEtag(w)
    \/ UrlretrieveOpen(w)
    \/ UrlretrieveBlock(w)
    \/ LzmaOpen(w)
    \/ CopyBlock(w)
    \/ EtagOpen(w)
    \/ EtagWrite(w)

\* the workers of the cache: retrieve_model and load_model race on the
\* models directory while the index publishes
Next ==
    \/ \E w \in Workers, n \in Names : retrieve_model(w, n)
    \/ \E w \in Workers : Retrieve(w)
    \/ \E w \in Workers, n \in Names : load_model(w, n)
    \/ \E w \in Workers : LoadModel(w)
    \/ \E n \in Names, v \in Versions : Publish(n, v)

Spec == Init /\ [][Next]_vars

\* the same workers against an index that publishes nothing
NextStatic ==
    \/ \E w \in Workers, n \in Names : retrieve_model(w, n)
    \/ \E w \in Workers : Retrieve(w)
    \/ \E w \in Workers, n \in Names : load_model(w, n)
    \/ \E w \in Workers : LoadModel(w)

SpecStatic == Init /\ [][NextStatic]_vars

\* the cache files a worker can hold when a job arrives: none (never
\* retrieved), a whole artifact of the current or of an older version, or
\* what a failed decompression left
CacheStates ==
    {[file |-> Absent, etag |-> "<absent>"],
     [file |-> [exists |-> TRUE, data |-> Decompressed("v1")], etag |-> "v1"],
     [file |-> [exists |-> TRUE, data |-> Decompressed("v2")], etag |-> "v2"],
     [file |-> [exists |-> TRUE, data |-> <<RawBlock("vbad", 1)>>],
      etag |-> "v1"]}

InitJob ==
    /\ \E c \in CacheStates :
          /\ file = [n \in Names |-> IF n \in MODELS THEN c.file ELSE Absent]
          /\ etag = [n \in Names |-> IF n \in MODELS THEN c.etag
                                     ELSE "<absent>"]
          /\ xz = [n \in Names |-> Absent]
          /\ dirExists = c.file.exists
    /\ remote = [n \in Names |-> "v1"]
    /\ store = [k \in Keys |-> Missing]
    /\ pc = [w \in Workers |-> "idle"]
    /\ fn = [w \in Workers |-> "none"]
    /\ args = [w \in Workers |-> NoArgs]
    /\ loc = [w \in Workers |-> NoLoc]
    /\ ret = [w \in Workers |-> NoRet]
    /\ log = [w \in Workers |-> <<>>]
    /\ alone = [w \in Workers |-> TRUE]
    /\ pre = [w \in Workers |-> NoPre]
    /\ last = [n \in Names |-> NoLast]

\* the cache and the index when workers that can die begin: any of the
\* cache states, against any version on the index
InitCrash ==
    /\ \E c \in CacheStates :
          /\ file = [n \in Names |-> IF n \in MODELS THEN c.file ELSE Absent]
          /\ etag = [n \in Names |-> IF n \in MODELS THEN c.etag
                                     ELSE "<absent>"]
          /\ xz = [n \in Names |-> Absent]
          /\ dirExists = c.file.exists
    /\ \E v \in Versions : remote = [n \in Names |-> v]
    /\ store = [k \in Keys |-> Missing]
    /\ pc = [w \in Workers |-> "idle"]
    /\ fn = [w \in Workers |-> "none"]
    /\ args = [w \in Workers |-> NoArgs]
    /\ loc = [w \in Workers |-> NoLoc]
    /\ ret = [w \in Workers |-> NoRet]
    /\ log = [w \in Workers |-> <<>>]
    /\ alone = [w \in Workers |-> TRUE]
    /\ pre = [w \in Workers |-> NoPre]
    /\ last = [n \in Names |-> NoLast]

\* the workers of the cache, any of which can die at any step of its call
NextCrash ==
    \/ \E w \in Workers, n \in Names : retrieve_model(w, n)
    \/ \E w \in Workers : Retrieve(w)
    \/ \E w \in Workers : Kill(w)

SpecCrash == InitCrash /\ [][NextCrash]_vars

\* the workers of the job queue: classify_bug calls race on the store
NextJob ==
    \/ \E w \in Workers, n \in Names, b \in BugIds, e \in Expirations :
          classify_bug(w, n, b, e)
    \/ \E w \in Workers : Download(w)
    \/ \E w \in Workers : LoadModel(w)
    \/ \E w \in Workers : SetUnavailable(w)
    \/ \E w \in Workers : Classify(w)
    \/ \E w \in Workers : Expire(w)

SpecJob == InitJob /\ [][NextJob]_vars

\* the workers of the job queue, any of which can die at any step of its
\* call, while the expiries of the store run
NextJobCrash ==
    \/ NextJob
    \/ \E w \in Workers : Kill(w)
    \/ \E k \in Keys : StoreExpire(k)

SpecJobCrash == InitJob /\ [][NextJobCrash]_vars

(* ------------------------------ claims --------------------------------- *)

\* worker w has finished a call of f that no other call overlapped
Finished(w, f) == pc[w] \in {"done", "failed"} /\ fn[w] = f /\ alone[w]

Returned(w, f) == pc[w] = "done" /\ fn[w] = f /\ alone[w]

\* the operations of a download and of a decompression
TransferOps == {"urlretrieve", "write_xz", "open_model", "write_model"}

Did(w, ops) == \E k \in 1..Len(log[w]) : log[w][k] \in ops

\* the call of w is the second of two consecutive retrieve_model calls for
\* one name that observed the same ETag
SecondOfTwo(w) ==
    /\ Returned(w, "retrieve_model")
    /\ pre[w].prev # NoLast
    /\ pre[w].prev.etag = last[args[w].name].etag

\* C1 (calls that no other call overlaps): the second of two consecutive retrieve_model calls between which the
\* remote ETag does not change downloads nothing, decompresses nothing,
\* leaves the model file and the .etag file as they were and returns the
\* path the first call returned.
C1_SecondCallIsIdle ==
    \A w \in Workers :
        SecondOfTwo(w) =>
            /\ ~Did(w, TransferOps)
            /\ file[args[w].name] = pre[w].file
            /\ etag[args[w].name] = pre[w].etag
            /\ ret[w] = [kind |-> "return", val |-> pre[w].prev.path]

\* a second call has returned, on a cache that holds an artifact
C1_Witness ==
    \E w \in Workers :
        /\ SecondOfTwo(w)
        /\ file[args[w].name].data = Decompressed("v2")
        /\ Len(ret[w].val) = 3

\* a decompression error ended the call of w
DecompressionFailed(w) ==
    /\ Finished(w, "retrieve_model")
    /\ pc[w] = "failed"
    /\ ret[w].val \in {<<"LZMAError">>, <<"EOFError">>}

\* C2 (a call that no other call overlaps): when the decompression of a freshly downloaded artifact fails
\* mid-way, the model file and the .etag file hold what they held before
\* the call.
C2_FailedDecompressionKeepsFiles ==
    \A w \in Workers :
        DecompressionFailed(w) =>
            /\ file[args[w].name] = pre[w].file
            /\ etag[args[w].name] = pre[w].etag

\* the call of w found a recorded ETag that differs from the remote one, or
\* none, and returned
ReturnedAfterChange(w) ==
    /\ Returned(w, "retrieve_model")
    /\ pre[w].etag # last[args[w].name].etag

\* C3 (a call that no other call overlaps): when the remote ETag differs
\* from the recorded one and retrieve_model returns, the model file has been overwritten with the
\* whole decompressed download and the .etag file holds the ETag the call
\* observed.
C3_ChangeOverwrites ==
    \A w \in Workers :
        ReturnedAfterChange(w) =>
            /\ Did(w, {"open_model"})
            /\ pre[w].got \in Versions
            /\ file[args[w].name] =
                  [exists |-> TRUE, data |-> Decompressed(pre[w].got)]
            /\ etag[args[w].name] = last[args[w].name].etag
            /\ last[args[w].name].etag \in Versions

\* a call replaced a whole artifact of one version by another
C3_Witness ==
    \E w \in Workers :
        /\ ReturnedAfterChange(w)
        /\ pre[w].file.data = Decompressed("v1")
        /\ file[args[w].name].data = Decompressed("v2")

\* the errors of the ETag query
HeadErrors == {<<"ConnectionError">>, <<"HTTPError">>, <<"KeyError">>}

\* the calls of w and u were retrieve_model calls for one registered name
\* that overlapped, and both are over
BothOver(w, u) ==
    /\ w # u
    /\ pc[w] \in {"done", "failed"} /\ pc[u] \in {"done", "failed"}
    /\ fn[w] = "retrieve_model" /\ fn[u] = "retrieve_model"
    /\ args[w].name = args[u].name
    /\ args[w].name \in MODELS
    /\ ~alone[w] /\ ~alone[u]
    /\ ret[w].val \notin HeadErrors /\ ret[u].val \notin HeadErrors

\* C8: against a remote that does not change, two overlapping
\* retrieve_model calls for one name both return the same path, and leave
\* the whole decompressed remote artifact with the remote ETag recorded.
C8_ConcurrentCallsBothReturn ==
    \A w, u \in Workers :
        BothOver(w, u) =>
            /\ ret[w] = [kind |-> "return", val |-> FilePath(args[w].name)]
            /\ ret[u] = ret[w]
            /\ file[args[w].name].data = Decompressed(remote[args[w].name])
            /\ etag[args[w].name] = remote[args[w].name]

\* worker w reads the model file of a name while worker u decompresses
\* into it
ReadsDuringCopy(w, u) ==
    /\ pc[w] = "load" /\ pc'[w] # "load"
    /\ fn[u] = "retrieve_model" /\ pc[u] = "copy"
    /\ args[u].name = args[w].name

\* C9: a load_model that reads the model file while another worker
\* decompresses into it never finds a partially written file.
C9_ReaderSeesWholeFile ==
    [][\A w, u \in Workers :
          ReadsDuringCopy(w, u) =>
              LoadOutcome(args[w].name).v # "UnpicklingError"]_vars

\* the key the call of w publishes under
KeyOf(w) == RedisKey(args[w].name, args[w].bug_id)

\* the encoded JSON text {"available": false}
AvailableFalse == <<[key |-> "available", value |-> [j |-> "false", v |-> <<>>]]>>

\* a classify_bug call that got no record has returned
ReturnedNoRecord(w) ==
    /\ Returned(w, "classify_bug")
    /\ loc[w].bugs = <<>>

\* C4 (a call that no other call overlaps): a classify_bug call to which the record source returns no records
\* leaves {"available": false} under result_{model_name}_{bug_id} with the
\* expiry given, returns "OK" and attempts no model load and no inference.
C4_NoRecordPublishesUnavailable ==
    \A w \in Workers :
        ReturnedNoRecord(w) =>
            /\ store[KeyOf(w)] = [value |-> AvailableFalse,
                                  ttl |-> args[w].expiration]
            /\ KeyOf(w) = <<"result", args[w].name, args[w].bug_id>>
            /\ ret[w] = [kind |-> "return", val |-> <<"OK">>]
            /\ ~Did(w, {"load", "infer"})

\* the scenario of the default expiry: no record for a registered name
C4_Witness ==
    \E w \in Workers :
        /\ ReturnedNoRecord(w)
        /\ args[w].name \in MODELS
        /\ store[KeyOf(w)].ttl = DefaultExpiration

\* a classify_bug call that got one record has returned
ReturnedOneRecord(w) ==
    /\ Returned(w, "classify_bug")
    /\ Len(loc[w].bugs) = 1

\* an encoded value is a flat array: an array of scalars
FlatArray(x) ==
    /\ x.j = "array"
    /\ \A k \in 1..Len(x.v) : x.v[k].j \in {"number", "string"}

NetworkOps == {"head", "urlretrieve", "fetch"}

FileOps == {"mkdir", "write_xz", "open_model", "write_model", "open_etag",
            "write_etag"}

StoreOps == {"set", "expire"}

\* C6: for a name that is not registered, retrieve_model and classify_bug
\* fail with the unknown-model error (the KeyError of MODELS) at once: no
\* network query, no file write, no write to the store.
C6_UnknownModelFailsAtOnce ==
    \A w \in Workers :
        (/\ fn[w] \in {"retrieve_model", "classify_bug"}
         /\ alone[w]
         /\ args[w].name \notin MODELS)
        => /\ ~Did(w, NetworkOps \cup FileOps \cup StoreOps)
           /\ store[KeyOf(w)] = Missing
           /\ pc[w] \in {"done", "failed"} =>
                 ret[w] = [kind |-> "raise", val |-> <<"KeyError">>]

\* the version of a whole artifact, "" for any other content
VersionOf(f) ==
    IF \E v \in Versions : f.data = Decompressed(v) THEN f.data[1].v ELSE ""

\* the call of w got records and is past its load
PastLoad(w) ==
    /\ fn[w] = "classify_bug"
    /\ alone[w]
    /\ Did(w, {"load"})

IsPrefix(s, t) == Len(s) <= Len(t) /\ \A k \in 1..Len(s) : s[k] = t[k]

Sets(w) == Count(log[w], "set")

\* C10: every classify_bug call, returned or failed, has written a value to
\* the store exactly once when it is over.
C10_EveryCallSetsOnce ==
    \A w \in Workers : Finished(w, "classify_bug") => Sets(w) = 1

\* C10 as amended: a classify_bug call that returns "OK" has written a
\* value to the store exactly once, in the branch without records and in
\* the classified branch alike, and the value lies under its key; a call
\* that fails at the model load has written none.
C10_ReturnedCallSetsOnce ==
    \A w \in Workers :
        /\ (fn[w] = "classify_bug" /\ alone[w]) => Sets(w) <= 1
        /\ Returned(w, "classify_bug") =>
              Sets(w) = 1 /\ store[KeyOf(w)] # Missing
        /\ (Finished(w, "classify_bug") /\ pc[w] = "failed") => Sets(w) = 0

\* a call of the classified branch has returned with its value published
C10_Witness ==
    \E w \in Workers :
        /\ Returned(w, "classify_bug")
        /\ Len(loc[w].bugs) = MaxBugs
        /\ Sets(w) = 1
        /\ HasMember(store[KeyOf(w)].value, "probs")

\* the HEAD query of the call of w did not give an ETag
HeadFailed(w) ==
    /\ fn[w] = "retrieve_model"
    /\ alone[w]
    /\ pre[w].head \in {"unreachable", "status", "noetag"}

\* C11 (a call that no other call overlaps): when the ETag query cannot
\* complete, answers with a non-success status or answers without the ETag
\* field, retrieve_model fails with the error of that step before any
\* download or decompression, and the model file and the .etag file are as
\* they were.
C11_HeadFailureStopsCall ==
    \A w \in Workers :
        HeadFailed(w) =>
            /\ pc[w] = "failed"
            /\ ret[w] = [kind |-> "raise",
                         val |-> <<IF pre[w].head = "unreachable"
                                   THEN "ConnectionError"
                                   ELSE IF pre[w].head = "status"
                                   THEN "HTTPError" ELSE "KeyError">>]
            /\ ~Did(w, TransferOps \cup {"open_etag", "write_etag"})
            /\ file[args[w].name] = pre[w].file
            /\ etag[args[w].name] = pre[w].etag

\* the answer lacked the ETag field while the cache held an older artifact
C11_Witness ==
    \E w \in Workers :
        /\ HeadFailed(w)
        /\ pre[w].head = "noetag"
        /\ pre[w].etag = "v1"
        /\ remote[args[w].name] = "v2"

\* the call of w got records and reached its load with no whole artifact in
\* the model file
LoadFailed(w) ==
    /\ PastLoad(w)
    /\ args[w].name \in MODELS
    /\ VersionOf(pre[w].file) = ""

\* C12 (a call that no other call overlaps): when records came back and the
\* model file cannot be loaded, classify_bug fails with the error of the
\* load: it does not return "OK", the store is as the call found it, the
\* load ran once and nothing was queried, downloaded or decompressed.
C12_LoadFailureStopsJob ==
    \A w \in Workers :
        LoadFailed(w) =>
            /\ pc[w] = "failed"
            /\ ret[w] = [kind |-> "raise",
                         val |-> <<IF pre[w].file.exists THEN "UnpicklingError"
                                   ELSE "FileNotFoundError">>]
            /\ log[w] = <<"fetch", "load">>
            /\ store[KeyOf(w)] = pre[w].entry
            /\ file[args[w].name] = pre[w].file
            /\ etag[args[w].name] = pre[w].etag
            /\ xz[args[w].name] = Absent

\* the model file held what a failed decompression left, and the store
\* held an entry under the key
C12_Witness ==
    \E w \in Workers :
        /\ LoadFailed(w)
        /\ pre[w].file.exists
        /\ pre[w].entry # Missing
        /\ store[KeyOf(w)] = pre[w].entry

\* the value a classify_bug call publishes for the records it fetched
Published(bugs) ==
    JsonDumps(IF NoBugs(bugs) THEN UnavailableData ELSE ResultData(bugs))

\* the call of w returned and found under its key the value it publishes:
\* the entry of an earlier run of the same request, still in the store
Rerun(w) ==
    /\ Returned(w, "classify_bug")
    /\ pre[w].entry # Missing
    /\ pre[w].entry.value = Published(loc[w].bugs)

\* C13 (a call that no other call overlaps): a classify_bug that runs again
\* while the entry of the same request is in the store leaves under the key
\* one entry with the same value, whose expiry is the ttl of this call,
\* whatever expiry the entry had.
C13_RerunOverwrites ==
    \A w \in Workers :
        Rerun(w) =>
            store[KeyOf(w)] = [value |-> pre[w].entry.value,
                               ttl |-> args[w].expiration]

\* the earlier run had given the entry a shorter expiry
C13_Witness ==
    \E w \in Workers :
        /\ Rerun(w)
        /\ Len(loc[w].bugs) > 0
        /\ pre[w].entry.ttl = 60
        /\ args[w].expiration = DefaultExpiration
        /\ store[KeyOf(w)].ttl = DefaultExpiration

\* a classify_bug call that got several records has returned
ReturnedSeveralRecords(w) ==
    /\ Returned(w, "classify_bug")
    /\ Len(loc[w].bugs) > 1

\* the scalars of an encoded value
Scalars(x) == IF x.j = "array" THEN {x.v[k].v : k \in 1..Len(x.v)} ELSE {x.v}

\* C14 (a call that no other call overlaps): when several records came
\* back, the inference gives one row per record and the value published is
\* the result of the first record: its probabilities, the index of the
\* largest of them and the label of that class; no probability, index or
\* label that only a later record has is published.
C14_FirstRecordOnly ==
    \A w \in Workers :
        ReturnedSeveralRecords(w) =>
            LET bugs == loc[w].bugs
                obj == store[KeyOf(w)].value
                row(k) == PredictProba(bugs[k])
                probs == Get(obj, "probs")
            IN /\ Len(ModelClassify(bugs)) = Len(bugs)
               /\ Len(obj) = 3
               /\ probs.j = "array"
               /\ Len(probs.v) = Len(Classes)
               /\ \A c \in 1..Len(Classes) :
                      probs.v[c] = [j |-> "number", v |-> <<row(1)[c]>>]
               /\ Get(obj, "indexes") =
                      [j |-> "number", v |-> <<Argmax(row(1))>>]
               /\ Get(obj, "suggestions") =
                      [j |-> "string", v |-> <<Classes[Argmax(row(1)) + 1]>>]
               /\ \A k \in 2..Len(bugs) :
                      /\ row(k) # row(1) =>
                            \E c \in 1..Len(Classes) :
                                probs.v[c].v # <<row(k)[c]>>
                      /\ Argmax(row(k)) # Argmax(row(1)) =>
                            /\ <<Argmax(row(k))>> \notin
                                  Scalars(Get(obj, "indexes"))
                            /\ <<Classes[Argmax(row(k)) + 1]>> \notin
                                  Scalars(Get(obj, "suggestions"))

\* two records with different results came back
C14_Witness ==
    \E w \in Workers :
        /\ ReturnedSeveralRecords(w)
        /\ loc[w].bugs = <<"r1", "r2">>
        /\ Get(store[KeyOf(w)].value, "suggestions").v
              = <<Classes[Argmax(PredictProba("r1")) + 1]>>

\* the .etag file of the call of w was opened for the new ETag
EtagTouched(w) == Did(w, {"open_etag"})

\* C15 (a call that no other call overlaps, which can fail or die at any
\* step): as long as the call has not decompressed the whole artifact into
\* the model file, the .etag file holds what the call found; once the .etag
\* file is opened for the new ETag, the model file holds the whole
\* decompression of what the call downloaded, and the .etag file is empty
\* until the ETag the call observed is written.
C15_EtagAfterDecompression ==
    \A w \in Workers :
        (fn[w] = "retrieve_model" /\ alone[w]) =>
            LET n == args[w].name
            IN /\ ~EtagTouched(w) => etag[n] = pre[w].etag
               /\ EtagTouched(w) =>
                     /\ Count(log[w], "write_xz") = NChunks
                     /\ Count(log[w], "write_model") = NChunks
                     /\ file[n] = [exists |-> TRUE,
                                   data |-> Decompressed(pre[w].got)]
                     /\ etag[n] = IF Did(w, {"write_etag"})
                                  THEN last[n].etag ELSE ""
                     /\ Did(w, {"write_etag"}) =>
                           pc[w] = "done" /\ last[n].etag \in Versions

\* a call died in the middle of its decompression, the model file
\* truncated, and the .etag file still holds the older ETag
C15_Witness ==
    \E w \in Workers :
        /\ fn[w] = "retrieve_model" /\ alone[w]
        /\ ret[w].kind = "killed"
        /\ Did(w, {"write_model"})
        /\ Count(log[w], "write_model") < NChunks
        /\ pre[w].etag = "v1"
        /\ pre[w].got = "v2"
        /\ etag[args[w].name] = "v1"

\* the call of w found no .etag file and its HEAD query gave an ETag
NoRecord(w) ==
    /\ fn[w] = "retrieve_model"
    /\ alone[w]
    /\ pre[w].etag = "<absent>"
    /\ pre[w].head = "ok"

\* C16 (a call that no other call overlaps): a retrieve_model that finds no
\* .etag file, whether or not a model file exists, goes on to download and
\* decompress: it returns only after the whole download and the whole
\* decompression and after writing the ETag, and it fails only in the
\* decompression, never for the missing record.
C16_NoRecordDownloads ==
    \A w \in Workers :
        NoRecord(w) =>
            /\ pc[w] = "urlretrieve" \/ Did(w, {"urlretrieve"})
            /\ pc[w] = "done" =>
                  /\ Count(log[w], "write_xz") = NChunks
                  /\ Count(log[w], "write_model") = NChunks
                  /\ Did(w, {"write_etag"})
                  /\ etag[args[w].name] = last[args[w].name].etag
            /\ pc[w] = "failed" =>
                  /\ Did(w, {"open_model"})
                  /\ ret[w].val \in {<<"LZMAError">>, <<"EOFError">>}

\* a model file existed, left by a failed decompression, with no .etag file
C16_Witness ==
    \E w \in Workers :
        /\ NoRecord(w)
        /\ pre[w].file.exists
        /\ pc[w] = "done"
        /\ file[args[w].name].data = Decompressed("v2")

\* a call is about to give the entry under key k its expiry
ExpirePending(k) ==
    \E w \in Workers : pc[w] = "expire" /\ KeyOf(w) = k

\* C17: every entry of the store has an expiry, which is the ttl of a call,
\* unless a call that has set it is about to give it one; this with workers
\* that can die between the set and the expire and with calls that
\* overwrite an entry.
C17_EveryEntryExpires ==
    \A k \in Keys :
        (store[k] # Missing /\ ~ExpirePending(k)) =>
            store[k].ttl \in Expirations

\* no retrieve_model is in progress
NoneInProgress == \A w \in Workers : pc[w] \in Rest

\* C18: whenever no retrieve_model is in progress and the .etag file of a
\* model holds the ETag the index serves now, the model file is the whole
\* decompression of the artifact the index serves now.
C18_CacheCoherent ==
    \A n \in Names \cap MODELS :
        (NoneInProgress /\ etag[n] = remote[n]) =>
            file[n] = [exists |-> TRUE, data |-> Decompressed(remote[n])]

\* the call of w returned, having found a model file that an unfinished
\* retrieve_model left, and the index did not change between its HEAD
\* query and its download
ReturnedAfterUnfinished(w) ==
    /\ Returned(w, "retrieve_model")
    /\ pre[w].file.exists
    /\ VersionOf(pre[w].file) = ""
    /\ pre[w].got \in {"", last[args[w].name].etag}

\* C19 (a call that no other call overlaps): the first retrieve_model to
\* return after one that failed or died returns the path of a model file
\* that is the whole decompression of the artifact the index served at the
\* call, also when the index serves again the ETag the .etag file holds.
C19_RecoversAfterFailure ==
    \A w \in Workers :
        ReturnedAfterUnfinished(w) =>
            /\ ret[w].val = FilePath(args[w].name)
            /\ file[args[w].name] =
                  [exists |-> TRUE,
                   data |-> Decompressed(last[args[w].name].etag)]

====
